---- MODULE Spec2Model ----
(***************************************************************************)
(* Model of the SEAL generation pipeline (tillioss/seal):                  *)
(*   - GeminiGateway.generate_intervention      (app/llm/gateway.py)       *)
(*   - CurriculumGateway.generate_curriculum_plan                          *)
(*                                       (app/llm/curriculum_gateway.py)   *)
(*   - LLMSafetyValidator.validate_content      (app/safety/guardrails.py) *)
(*   - InterventionPlan schema                  (app/schemas/base.py)      *)
(*   - POST /stream event_stream          (app/api/endpoints/stream.py)    *)
(*                                                                         *)
(* Texts are sequences of lexical tokens: "x" is prose that is not JSON,   *)
(* "{" and "}" are braces, "B" is the member list of the JSON object the   *)
(* text carries, "[]" is a JSON value that is not an object, "fence" is a  *)
(* code fence of three backticks, "json" its language tag, " " is white    *)
(* space.                                                                  *)
(***************************************************************************)
EXTENDS Integers, Sequences, FiniteSets, TLC

VARIABLES
    environment,    \* os.getenv('ENVIRONMENT', 'production')
    EMT_STRATEGIES, \* InterventionPrompt.EMT_STRATEGIES, shared by every request
    promptCalls,    \* get_prompt calls made on one data object: data given, data left, text
    enabled,        \* safety_validator.config.enabled
    kind,           \* which handler runs: "idle", "score", "curriculum", "stream"
    pc,             \* position of the handler
    request,        \* the request (score lists and metadata, or the payload)
    attempt,        \* tenacity attempt number of the decorated method
    prompt,         \* prompt text handed to the provider
    genCalls,       \* generate_content calls issued for generation
    rawText,        \* response.text of the generation call
    response_json,  \* object extracted from rawText
    auditCalls,     \* generate_content calls issued by validate_content
    auditOutcome,   \* what the audit model call did
    audited,        \* content handed to validate_content
    verdict,        \* (is_safe, violation) returned by validate_content
    draft,          \* intervention_plan dict built by the transformer
    plan,           \* value returned to the caller
    error,          \* exception that left the handler
    trace,          \* stages entered by the current request, in order
    chunks,         \* chunks the provider stream still holds
    streamEnd,      \* how the provider stream ends: "ok" or "raise"
    yielded,        \* chunks StreamingModel.stream has yielded
    frames,         \* frames event_stream has emitted
    reply,          \* what the HTTP caller has received: status and detail or body
    selfTests,      \* what the two gateway self-tests of GET /health did
    parked,         \* locals of the other request in flight (concurrent handling)
    consumer        \* the consumer of the streamed response: connected or gone

vars == << environment, EMT_STRATEGIES, promptCalls, enabled, kind, pc, request, attempt, prompt, genCalls, rawText,
           response_json, auditCalls, auditOutcome, audited, verdict, draft,
           plan, error, trace, chunks, streamEnd, yielded, frames, reply, selfTests,
           parked, consumer >>

----------------------------------------------------------------------------
(* Bounds of the model *)

MaxStrategies == 6
MaxChunks == 3
\* chunks per stream when two requests are in flight
ConcChunks == 1
\* get_prompt calls made on one data object
MaxCalls == 2

----------------------------------------------------------------------------
(* Program constants *)

\* a retry policy of two attempts
MaxAttemptsTwo == 1 + 1
\* stop_after_attempt(1) on both decorated gateway methods
MaxAttempts == 1
\* InterventionPlan.strategies: min_items=1, max_items=5
MinItems == 1
MaxItems == 5

None == [none |-> TRUE]

----------------------------------------------------------------------------
(* Generic helpers *)

RECURSIVE SumSeq(_)
SumSeq(s) == IF s = << >> THEN 0 ELSE Head(s) + SumSeq(Tail(s))

RECURSIVE Gcd(_, _)
Gcd(a, b) == IF b = 0 THEN a ELSE Gcd(b, a % b)

\* s[a+1 .. b] in Python slice notation s[a:b]
Slice(s, a, b) == IF b <= a THEN << >> ELSE SubSeq(s, a + 1, b)

\* str.find: index (0-based) of the first occurrence, -1 when absent
Find(s, t) ==
    IF \E i \in 1..Len(s) : s[i] = t
    THEN (CHOOSE i \in 1..Len(s) : s[i] = t /\ \A j \in 1..(i-1) : s[j] # t) - 1
    ELSE -1

\* str.rfind: index (0-based) of the last occurrence, -1 when absent
RFind(s, t) ==
    IF \E i \in 1..Len(s) : s[i] = t
    THEN (CHOOSE i \in 1..Len(s) : s[i] = t /\ \A j \in (i+1)..Len(s) : s[j] # t) - 1
    ELSE -1

\* str.strip
RECURSIVE LStrip(_)
LStrip(s) == IF s # << >> /\ Head(s) = " " THEN LStrip(Tail(s)) ELSE s
RECURSIVE RStrip(_)
RStrip(s) == IF s # << >> /\ s[Len(s)] = " " THEN RStrip(SubSeq(s, 1, Len(s) - 1)) ELSE s
Strip(s) == RStrip(LStrip(s))

----------------------------------------------------------------------------
(* json.loads on a token text carrying the object body *)

\* the emptiness test left out
IsEmptyTextNever(toks) == FALSE
\* not response.text
IsEmptyText(toks) == toks = << >>

ParseErr == [ok |-> FALSE, isDict |-> FALSE, val |-> << >>]

JsonLoads(toks, body) ==
    LET t == Strip(toks) IN
    IF t = << "{", "B", "}" >> THEN [ok |-> TRUE, isDict |-> TRUE, val |-> body]
    ELSE IF t = << "{", "}" >> THEN [ok |-> TRUE, isDict |-> TRUE, val |-> << >>]
    ELSE IF t = << "[]" >> THEN [ok |-> TRUE, isDict |-> FALSE, val |-> << >>]
    ELSE ParseErr

----------------------------------------------------------------------------
(* Values exchanged with the model.  A string is a sequence of tokens, so   *)
(* the empty string is << >>; JsonNull stands for a JSON null item.         *)

JsonNull == << "null" >>
IsStr(v) == v # JsonNull
IsStrList(l) == \A i \in 1..Len(l) : IsStr(l[i])

\* a well-formed strategy of the provider schema (class Strategy)
ModelStrategy(i) ==
    [ title |-> << "title", i >>,
      description |-> << "description", i >>,
      implementationPlan |-> << << "step", i >> >>,
      successMetrics |-> << << "outcome", i >> >> ]

\* strategy lists a model may answer with
FullStrategies(n) == [i \in 1..n |-> ModelStrategy(i)]
StrategyLists ==
    { FullStrategies(n) : n \in 0..MaxStrategies }
    \cup { << ModelStrategy(1), [description |-> << "description", 2 >>] >>,
           << [ModelStrategy(1) EXCEPT !.implementationPlan = << JsonNull >>] >> }

\* a weekly entry of the provider schema (class WeeklyPlan)
ModelWeek(n) == [week |-> n, focus |-> << "focus", n >>, activities |-> << << "activity", n >> >>]
Timelines ==
    { << ModelWeek(1), ModelWeek(2), ModelWeek(3), ModelWeek(4) >>,
      << ModelWeek(2), ModelWeek(4) >>,
      << ModelWeek(4), ModelWeek(1), ModelWeek(3), ModelWeek(2) >>,
      << ModelWeek(1), [week |-> 2, focus |-> << "focus", 2 >>], ModelWeek(3), ModelWeek(4) >>,
      << ModelWeek(1), [focus |-> << "focus", 2 >>, activities |-> << >>] >> }

MetricLists ==
    { << >>,
      << << "calmer", "class" >>, << "15", "%", "gain" >> >>,
      << << "15", "%", "gain" >>, << "calmer", "class" >>, << "90", "%" >>, << "more", "talk" >>,
         << "15", "%", "gain" >> >> }

BaseObject ==
    [ classId |-> << "class", 1 >>,
      numberOfStudents |-> 20,
      deficientArea |-> << "EMT2" >>,
      strategies |-> FullStrategies(3),
      timeline |-> << ModelWeek(1), ModelWeek(2), ModelWeek(3), ModelWeek(4) >>,
      overallSuccessMetrics |-> << << "calmer", "class" >>, << "15", "%", "gain" >> >> ]

\* BaseObject without the key k
Without(obj, k) == [f \in DOMAIN obj \ {k} |-> obj[f]]

\* objects the generation model may answer with on /score
InterventionObjects ==
    { [BaseObject EXCEPT !.strategies = s, !.timeline = t, !.overallSuccessMetrics = m] :
          s \in StrategyLists, t \in Timelines, m \in MetricLists }
    \cup { Without(BaseObject, k) : k \in DOMAIN BaseObject }

\* a well-formed entry of CurriculumResponse.recommended_interventions
ModelIntervention ==
    [ name |-> << "breathing" >>,
      grade_levels |-> << "2" >>,
      skill_area |-> "anger_management",
      summary |-> << "slow", "breathing" >>,
      implementation |-> [steps |-> << << "breathe" >> >>],
      intended_purpose |-> << "calm" >> ]

\* objects the generation model may answer with on /curriculum
CurriculumObjects ==
    { [ recommended_interventions |-> << ModelIntervention >>,
        skill_focus |-> << << "anger_management" >> >>,
        implementation_order |-> << << "breathing" >> >> ],
      [ recommended_interventions |-> << Without(ModelIntervention, "summary") >>,
        skill_focus |-> << << "anger_management" >> >>,
        implementation_order |-> << << "breathing" >> >> ],
      [ recommended_interventions |-> << >> ] }

----------------------------------------------------------------------------
(* ShapeTransformer: gateway.py lines 150-172 *)

\* a test that looks at the first character only
HasPercentFirst(m) == m # << >> /\ Head(m) = "%"
\* "%" in m
HasPercent(m) == \E i \in 1..Len(m) : m[i] = "%"

\* [m for m in l if keep(m)]
RECURSIVE Quantitative(_)
Quantitative(l) ==
    IF l = << >> THEN << >>
    ELSE IF HasPercent(Head(l)) THEN << Head(l) >> \o Quantitative(Tail(l))
    ELSE Quantitative(Tail(l))
RECURSIVE Qualitative(_)
Qualitative(l) ==
    IF l = << >> THEN << >>
    ELSE IF ~HasPercent(Head(l)) THEN << Head(l) >> \o Qualitative(Tail(l))
    ELSE Qualitative(Tail(l))

\* dict.get(key, default)
Get(d, k, default) == IF k \in DOMAIN d THEN d[k] ELSE default

\* one entry of the "strategies" list comprehension
CanonicalStrategy(strategy) ==
    [ activity |-> Get(strategy, "title", << >>),
      implementation |-> Get(strategy, "implementationPlan", << >>),
      expected_outcomes |-> Get(strategy, "successMetrics", << >>),
      time_allocation |-> << "30 minutes per session" >>,
      resources |-> << << "Emotion cards" >>, << "Activity materials" >> >> ]

\* the strategies taken in reverse order
CanonicalStrategiesReversed(l) == [i \in 1..Len(l) |-> CanonicalStrategy(l[Len(l) + 1 - i])]
CanonicalStrategies(l) == [i \in 1..Len(l) |-> CanonicalStrategy(l[i])]

\* f"week{n}"
WeekKey(n) == << "week", n >>

\* the "timeline" dict comprehension: a later entry with the same key wins
TimelineDict(tl) ==
    [ k \in { WeekKey(tl[i].week) : i \in 1..Len(tl) } |->
        LET last == CHOOSE i \in 1..Len(tl) :
                        /\ WeekKey(tl[i].week) = k
                        /\ \A j \in (i+1)..Len(tl) : WeekKey(tl[j].week) # k
        IN Get(tl[last], "activities", << >>) ]

RequiredKeys ==
    { "classId", "numberOfStudents", "deficientArea", "strategies", "timeline",
      "overallSuccessMetrics" }

\* a transformer that subscripts every member it reads
TransformRaisesStrict(parsed) ==
    \/ ~parsed.isDict
    \/ ~(RequiredKeys \subseteq DOMAIN parsed.val)
    \/ \E i \in 1..Len(parsed.val.timeline) :
          ~({ "week", "activities" } \subseteq DOMAIN parsed.val.timeline[i])
    \/ \E i \in 1..Len(parsed.val.strategies) :
          ~({ "title", "implementationPlan", "successMetrics" }
                \subseteq DOMAIN parsed.val.strategies[i])
\* the subscripts of the transformer that raise KeyError / TypeError
TransformRaises(parsed) ==
    \/ ~parsed.isDict
    \/ ~(RequiredKeys \subseteq DOMAIN parsed.val)
    \/ \E i \in 1..Len(parsed.val.timeline) : "week" \notin DOMAIN parsed.val.timeline[i]

Transform(obj) ==
    [ analysis |-> << "Analysis for class", obj.classId, "with", obj.numberOfStudents,
                      "students focusing on", obj.deficientArea >>,
      strategies |-> CanonicalStrategies(obj.strategies),
      timeline |-> TimelineDict(obj.timeline),
      success_metrics |->
          [ quantitative |-> Quantitative(obj.overallSuccessMetrics),
            qualitative |-> Qualitative(obj.overallSuccessMetrics),
            assessment_methods |-> << << "Weekly assessments" >>, << "Observation records" >>,
                                      << "Student feedback" >> >> ] ]

----------------------------------------------------------------------------
(* SchemaValidator: construction of InterventionPlan, schemas/base.py *)

\* the lower bound left out
StrategyCountOkNoMin(n) == n <= MaxItems
StrategyCountOk(n) == MinItems <= n /\ n <= MaxItems

InterventionStrategyOk(s) ==
    /\ IsStr(s.activity)
    /\ IsStrList(s.implementation)
    /\ IsStrList(s.expected_outcomes)
    /\ IsStr(s.time_allocation)
    /\ IsStrList(s.resources)

InterventionPlanOk(d) ==
    /\ StrategyCountOk(Len(d.strategies))
    /\ \A i \in 1..Len(d.strategies) : InterventionStrategyOk(d.strategies[i])
    /\ \A k \in DOMAIN d.timeline : IsStrList(d.timeline[k])
    /\ IsStrList(d.success_metrics.quantitative)
    /\ IsStrList(d.success_metrics.qualitative)
    /\ IsStrList(d.success_metrics.assessment_methods)

\* CurriculumIntervention and CurriculumResponse, schemas/curriculum.py
SkillAreas == { "emotional_awareness", "emotional_regulation", "anger_management" }
GradeLevels == { "1", "2", "5" }

CurriculumInterventionOk(c) ==
    /\ { "name", "grade_levels", "skill_area", "summary", "implementation",
         "intended_purpose" } \subseteq DOMAIN c
    /\ \A i \in 1..Len(c.grade_levels) : c.grade_levels[i] \in GradeLevels
    /\ c.skill_area \in SkillAreas
    /\ "steps" \in DOMAIN c.implementation

CurriculumResponseOk(parsed) ==
    /\ parsed.isDict
    /\ { "recommended_interventions", "skill_focus", "implementation_order" }
           \subseteq DOMAIN parsed.val
    /\ \A i \in 1..Len(parsed.val.recommended_interventions) :
           CurriculumInterventionOk(parsed.val.recommended_interventions[i])

----------------------------------------------------------------------------
(* What the provider may do on one generate_content call *)

\* exception classes a provider call may raise (all derive from Exception)
ExcTypes == { "ConnectionError", "ResourceExhausted", "KeyError" }

Raises(e) == [raises |-> TRUE, exc |-> e, toks |-> << >>, body |-> << >>]
Answers(t, b) == [raises |-> FALSE, exc |-> "", toks |-> t, body |-> b]

\* token texts that carry an object, and token texts that carry none
TextsWithBody ==
    { << "{", "B", "}" >>,
      << "x", "{", "B", "}", "x" >>,
      << "fence", "json", "{", "B", "}", "fence" >> }
TextsWithoutBody ==
    { << >>, << " " >>, << "x" >>, << "[]" >>, << "{", "}" >>, << "}", "x", "{" >>,
      << "{", "x", "}" >> }

GenOutcomes(objects) ==
    { Raises(e) : e \in ExcTypes }
    \cup { Answers(t, b) : t \in TextsWithBody, b \in objects }
    \cup { Answers(t, << >>) : t \in TextsWithoutBody }

\* JSON values of the verdict's is_safe member
JTrue == [t |-> "bool", b |-> TRUE]
JFalse == [t |-> "bool", b |-> FALSE]
JStr(s) == [t |-> "str", s |-> s]
JNum(n) == [t |-> "num", n |-> n]
JNullValue == [t |-> "null"]

\* Python truth value of a JSON value
Truthy(v) ==
    CASE v.t = "bool" -> v.b
      [] v.t = "str" -> v.s # << >>
      [] v.t = "num" -> v.n # 0
      [] OTHER -> FALSE

VerdictBodies ==
    { [is_safe |-> JTrue],
      [is_safe |-> JFalse, reason |-> << "too", "scary" >>, suggestion |-> << "soften" >>],
      [is_safe |-> JFalse],
      [reason |-> << "no", "flag" >>],
      [is_safe |-> JStr(<< "false" >>)],
      [is_safe |-> JNullValue] }

AuditOutcomes ==
    { Raises(e) : e \in ExcTypes }
    \cup { Answers(t, b) : t \in TextsWithBody, b \in VerdictBodies }
    \cup { Answers(t, << >>) : t \in TextsWithoutBody }

\* no model call was made
NoOutcome == [raises |-> FALSE, exc |-> "none", toks |-> << >>, body |-> << >>]

----------------------------------------------------------------------------
(* ResponseExtractor of the gateways: gateway.py 125-141,                   *)
(* curriculum_gateway.py 61-73                                              *)

\* an extractor without the brace fallback
ExtractWholeOnly(toks, body) == JsonLoads(toks, body)
\* json.loads(text), then json.loads(text[text.find('{') : text.rfind('}') + 1])
Extract(toks, body) ==
    LET whole == JsonLoads(toks, body) IN
    IF whole.ok THEN whole
    ELSE LET start == Find(toks, "{")
             end == RFind(toks, "}") + 1
         IN IF start >= 0 /\ end > start
            THEN JsonLoads(Slice(toks, start, end), body)
            ELSE ParseErr

----------------------------------------------------------------------------
(* LLMSafetyValidator: guardrails.py *)

StartsWith(s, t) == s # << >> /\ Head(s) = t
EndsWith(s, t) == s # << >> /\ s[Len(s)] = t

\* _clean_json
CleanJson(text) ==
    LET t0 == Strip(text)
        t1 == IF StartsWith(t0, "fence") THEN Tail(t0) ELSE t0
        t2 == IF StartsWith(t1, "json") THEN Tail(t1) ELSE t1
        t3 == IF EndsWith(t2, "fence") THEN SubSeq(t2, 1, Len(t2) - 1) ELSE t2
        start == Find(t3, "{")
        end == RFind(t3, "}")
    IN IF start >= 0 /\ end > start THEN Slice(t3, start, end + 1) ELSE Strip(t3)

Violation(m, s) == [message |-> m, suggestion |-> s]
Verdict(safe, v) == [safe |-> safe, violation |-> v]

\* the generic violation of the except branch and of the empty-text branch
FailedRetry == Violation(<< "Safety validation failed" >>, << "Retry the request" >>)
FailedAdmin == Violation(<< "Safety validation failed" >>, << "Contact administrator" >>)

\* the verdict read from a parsed audit answer (lines 79-88)
VerdictOf(result) ==
    IF Truthy(Get(result, "is_safe", JFalse))
    THEN Verdict(TRUE, None)
    ELSE Verdict(FALSE,
                 Violation(Get(result, "reason", << "Content not appropriate for children" >>),
                           Get(result, "suggestion", << "Review and revise content" >>)))

\* an audit that passes the content when the model call raises
AuditVerdictFailOpen(outcome) ==
    IF outcome.raises THEN Verdict(TRUE, None)
    ELSE IF IsEmptyText(outcome.toks) THEN Verdict(FALSE, FailedRetry)
    ELSE LET result == JsonLoads(CleanJson(outcome.toks), outcome.body) IN
         IF ~result.ok \/ ~result.isDict THEN Verdict(FALSE, FailedAdmin)
         ELSE VerdictOf(result.val)

\* validate_content with the audit on, given what the model call did
AuditVerdict(outcome) ==
    IF outcome.raises THEN Verdict(FALSE, FailedAdmin)
    ELSE IF IsEmptyText(outcome.toks) THEN Verdict(FALSE, FailedRetry)
    ELSE LET result == JsonLoads(CleanJson(outcome.toks), outcome.body) IN
         IF ~result.ok \/ ~result.isDict THEN Verdict(FALSE, FailedAdmin)
         ELSE VerdictOf(result.val)

\* validate_content
ValidateContent(on, outcome) ==
    IF ~on THEN Verdict(TRUE, None) ELSE AuditVerdict(outcome)

----------------------------------------------------------------------------
(* Requests *)

Dims == { "EMT1", "EMT2", "EMT3", "EMT4" }

SampleScores ==
    [ EMT1 |-> << 80, 85 >>, EMT2 |-> << 25, 30 >>, EMT3 |-> << 75 >>, EMT4 |-> << 70, 72 >> ]

\* EMTScores values: every list in range, any of them possibly empty
ScoreRecords ==
    { [d \in Dims |-> IF d \in E THEN << >> ELSE SampleScores[d]] : E \in SUBSET Dims }

SampleMetadata == [class_id |-> << "class", 1 >>, deficient_area |-> "EMT2", num_students |-> 20]

\* JSON bodies posted to /score
ScoreBodies ==
    { [scores |-> sc, metadata |-> SampleMetadata] : sc \in ScoreRecords }
    \cup { [scores |-> SampleScores, metadata |-> [SampleMetadata EXCEPT !.num_students = n]] :
              n \in { 0 - 5, 0, 20 } }
    \cup { [scores |-> [SampleScores EXCEPT !.EMT2 = << 25, 130 >>], metadata |-> SampleMetadata],
           [scores |-> SampleScores, metadata |-> [SampleMetadata EXCEPT !.deficient_area = "EMT9"]] }

\* CurriculumRequest values accepted by request validation
CurriculumRequests ==
    { [grade_level |-> "2", skill_areas |-> << "anger_management" >>, score |-> 40],
      [grade_level |-> "5", skill_areas |-> << "emotional_awareness", "emotional_regulation" >>,
       score |-> 90] }

\* JSON payloads posted to /stream
StreamPayloads ==
    { [scores |-> SampleScores, metadata |-> SampleMetadata],
      [scores |-> Without(SampleScores, "EMT3"), metadata |-> SampleMetadata],
      [scores |-> [SampleScores EXCEPT !.EMT1 = << >>], metadata |-> SampleMetadata],
      [scores |-> [SampleScores EXCEPT !.EMT2 = << 25, 130 >>], metadata |-> SampleMetadata],
      [scores |-> SampleScores, metadata |-> [SampleMetadata EXCEPT !.deficient_area = "EMT9"]],
      [scores |-> SampleScores],
      [metadata |-> SampleMetadata] }
    \cup { [scores |-> SampleScores, metadata |-> [SampleMetadata EXCEPT !.num_students = n]] :
              n \in { 0 - 5, 0, 20 } }

\* a body posted to /stream that request.json() cannot decode
InvalidJsonBody == [invalid_json |-> TRUE]

----------------------------------------------------------------------------
(* Request validation: EMTScores, ClassMetadata, InterventionRequest *)

\* validate_scores
ScoresInRange(l) == \A i \in 1..Len(l) : 0 <= l[i] /\ l[i] <= 100

\* validate_deficient_area
ValidArea(a) == a \in Dims

InterventionRequestOk(p) ==
    /\ "scores" \in DOMAIN p
    /\ "metadata" \in DOMAIN p
    /\ Dims \subseteq DOMAIN p.scores
    /\ \A d \in Dims : ScoresInRange(p.scores[d])
    /\ { "class_id", "deficient_area", "num_students" } \subseteq DOMAIN p.metadata
    /\ ValidArea(p.metadata.deficient_area)

\* InterventionRequest values accepted by request validation: the handler of
\* /score runs for these bodies only
InterventionRequests == { p \in ScoreBodies : InterventionRequestOk(p) }

----------------------------------------------------------------------------
(* Averages and prompts *)

\* the float n / d, kept as a reduced fraction
Ratio(n, d) == LET g == Gcd(n, d) IN IF g = 0 THEN << 0, 1 >> ELSE << n \div g, d \div g >>
Zero == << 0, 1 >>

\* sum(l) / len(l) of generate_intervention: ZeroDivisionError on an empty list
OneShotAverage(l) ==
    IF Len(l) = 0 THEN [ok |-> FALSE, val |-> Zero]
    ELSE [ok |-> TRUE, val |-> Ratio(SumSeq(l), Len(l))]

\* sum(l) / len(l) if l else 0.0 of build_prompt_and_model
StreamAverage(l) ==
    IF l # << >> THEN [ok |-> TRUE, val |-> Ratio(SumSeq(l), Len(l))]
    ELSE [ok |-> TRUE, val |-> Zero]

\* prompt_data of an intervention request, with the averages avg
PromptData(req, avg) ==
    [ class_id |-> req.metadata.class_id,
      num_students |-> req.metadata.num_students,
      deficient_area |-> req.metadata.deficient_area,
      emt1_avg |-> avg["EMT1"].val, emt2_avg |-> avg["EMT2"].val,
      emt3_avg |-> avg["EMT3"].val, emt4_avg |-> avg["EMT4"].val ]

\* InterventionPrompt.EMT_STRATEGIES: the activities curated for each area
KnowledgeBase ==
    [ EMT1 |-> << "Emotion Flashcard Pairs", "Mirror Expression Practice",
                  "Digital Emotion Matching Games" >>,
      EMT2 |-> << "Story-Based Emotion Discussions", "Scenario Cards with Emotional Contexts",
                  "Role-Playing Emotional Situations" >>,
      EMT3 |-> << "Emotion Word Wall", "Expression-Label Matching Games",
                  "Emotion Vocabulary Journals" >>,
      EMT4 |-> << "Emotion Word-to-Face Games", "Verbal Emotion Cues Practice",
                  "Group Emotion Word Activities" >> ]

\* the "Proven Strategies" lines that BASE_TEMPLATE spells out for each area
ProvenStrategies ==
    [ EMT1 |-> << "Emotion flashcard pairs for matching practice",
                  "Mirror expression practice with emotion cards",
                  "Digital emotion matching games with progressive difficulty",
                  "Pattern recognition activities with facial expressions" >>,
      EMT2 |-> << "Story-based emotion discussions with character analysis",
                  "Scenario cards with emotional contexts for matching",
                  "Role-playing emotional situations with expression practice",
                  "Situational emotion analysis activities" >>,
      EMT3 |-> << "Emotion word wall development and daily practice",
                  "Expression-label matching games and activities",
                  "Emotion vocabulary journals with daily entries",
                  "Vocabulary building through visual-verbal connections" >>,
      EMT4 |-> << "Emotion word-to-face games and quick responses",
                  "Verbal emotion cues practice with audio support",
                  "Group emotion word activities and competitions",
                  "Label comprehension through interactive exercises" >> ]

\* the notice a prompt would carry for an area without strategies
FallbackNotice == "No specific strategies available for this area"

\* GEMINI_TEMPLATE, OPENAI_TEMPLATE or BASE_TEMPLATE, by provider
TemplateSuffix(provider) ==
    CASE provider = "gemini" -> "FINAL CHECK"
      [] provider = "openai" -> "Note: Format your response as a JSON object"
      [] OTHER -> ""

\* BASE_TEMPLATE.format(data): the sections of the intervention prompt text.  The
\* strategy lines of the four areas are literal text of the template; the only
\* placeholders are the class information, the averages, schema and example.
InterventionText(provider, data) ==
    [ class_info |-> << data.class_id, data.num_students, data.deficient_area >>,
      averages |-> << data.emt1_avg, data.emt2_avg, data.emt3_avg, data.emt4_avg >>,
      strategies |-> ProvenStrategies,
      focus_area |-> data.deficient_area,
      notices |-> { },
      schema |-> data.schema,
      example |-> data.example,
      suffix |-> TemplateSuffix(provider) ]

\* number of characters of the string literals that get joined
StrLen ==
    [ emotional_awareness |-> 19, emotional_regulation |-> 20, anger_management |-> 16 ]

\* a str is the sequence of its characters; << name, i >> is character i of name
CharsOf(name) == [i \in 1..StrLen[name] |-> << name, i >>]
\* what iterating over a list of str ([t |-> "list", items |-> ...]) or over a
\* str yields: the items, or the characters
Iterate(v) == IF v.t = "list" THEN v.items ELSE [i \in 1..Len(v.s) |-> << v.s[i] >>]

\* sep.join(items)
RECURSIVE JoinStr(_, _)
JoinStr(sep, items) ==
    IF items = << >> THEN << >>
    ELSE IF Len(items) = 1 THEN items[1]
    ELSE items[1] \o sep \o JoinStr(sep, Tail(items))

\* d[k] = v
Put(d, k, v) == [f \in DOMAIN d \cup { k } |-> IF f = k THEN v ELSE d[f]]

\* the data dict as InterventionPrompt.get_prompt leaves it (lines 302-303)
InterventionDataAfter(data) ==
    Put(Put(data, "schema", "InterventionPlan.model_json_schema()"), "example", "EXAMPLE_RESPONSE")

\* the data dict as CurriculumPrompt.get_prompt leaves it (lines 110-114)
CurriculumDataAfter(data) ==
    Put(Put(Put(data, "schema", "CurriculumResponse.model_json_schema()"),
            "interventions", "CURRICULUM_DATA"),
        "skill_areas", JStr(JoinStr(<< << ",", 1 >>, << " ", 1 >> >>, Iterate(data.skill_areas))))

\* CurriculumPrompt template formatted with the data dict
CurriculumText(provider, data) ==
    [ grade_level |-> data.grade_level,
      skill_areas |-> data.skill_areas,
      score |-> data.score,
      interventions |-> data.interventions,
      schema |-> data.schema,
      suffix |-> TemplateSuffix(provider) ]

\* InterventionPrompt.get_prompt / CurriculumPrompt.get_prompt: the dict is
\* written to, then the template is formatted with it
GetPrompt(family, provider, data) ==
    LET after == IF family = "intervention" THEN InterventionDataAfter(data)
                 ELSE CurriculumDataAfter(data)
    IN [ family |-> family, provider |-> provider, data |-> after,
         text |-> IF family = "intervention" THEN InterventionText(provider, after)
                  ELSE CurriculumText(provider, after) ]

\* prompt_data of generate_curriculum_plan, lines 49-53
CurriculumPromptData(req) ==
    [ grade_level |-> req.grade_level,
      skill_areas |-> [ t |-> "list",
                        items |-> [i \in 1..Len(req.skill_areas) |->
                                      CharsOf(req.skill_areas[i])] ],
      score |-> req.score ]

NoPrompt == [family |-> "none"]

\* build_prompt_and_model, lines 252-256: missing score lists become empty lists
FillScores(p) ==
    IF "scores" \in DOMAIN p
    THEN [p EXCEPT !.scores = [d \in Dims \cup DOMAIN p.scores |->
                                  IF d \in DOMAIN p.scores THEN p.scores[d] ELSE << >>]]
    ELSE p

----------------------------------------------------------------------------
(* Errors *)

NoError == [type |-> "none"]
Exc(ty, origin, detail) == [type |-> ty, origin |-> origin, detail |-> detail]

\* the except clauses of generate_intervention, lines 182-187
WrapIntervention(e) ==
    IF e.type = "JSONDecodeError"
    THEN [type |-> "ValueError", origin |-> e.origin, detail |-> e.detail,
          text |-> "Could not parse JSON from response", cause |-> e.type]
    ELSE [type |-> "ValueError", origin |-> e.origin, detail |-> e.detail,
          text |-> "Failed to generate intervention", cause |-> e.type]

\* generate_curriculum_plan has no except clause
WrapCurriculum(e) ==
    [type |-> e.type, origin |-> e.origin, detail |-> e.detail, text |-> "", cause |-> e.type]

Wrap(k, e) == IF k = "score" THEN WrapIntervention(e) ELSE WrapCurriculum(e)

\* tenacity with reraise=True: the caller gets the last exception itself
RetryErrorReraised(e, n) == e
\* tenacity without reraise: the caller gets RetryError holding the last attempt
RetryError(e, n) == [type |-> "RetryError", last |-> e, attempts |-> n]

----------------------------------------------------------------------------
(* Frames of the /stream endpoint *)

\* chunk texts the provider stream may carry ("q" is a double quote, "n" a line feed)
ChunkTexts == { << >>, << "Hello" >>, << " world" >>, << "q", "n" >> }

\* json.dumps of a string: quote, backslash and control characters are escaped
EscapeChar(c) ==
    CASE c = "q" -> "\\q"
      [] c = "n" -> "\\n"
      [] OTHER -> c
JsonDumpsStr(str) == [i \in 1..Len(str) |-> EscapeChar(str[i])]

\* what a client reads back from an escaped string
UnescapeChar(c) ==
    CASE c = "\\q" -> "q"
      [] c = "\\n" -> "n"
      [] c \in { "q", "n" } -> "invalid"
      [] OTHER -> c
JsonLoadsStr(str) == [i \in 1..Len(str) |-> UnescapeChar(str[i])]

\* the chunk put in the frame without json.dumps
TokenFrameRaw(token) == [key |-> "token", value |-> token]
\* f"data: {json.dumps({'token': token})}\n\n"
TokenFrame(token) == [key |-> "token", value |-> JsonDumpsStr(token)]
\* f"data: {json.dumps({'status': 'complete'})}\n\n"
CompleteFrame == [key |-> "status", value |-> JsonDumpsStr(<< "complete" >>)]

----------------------------------------------------------------------------
(* HTTP replies of the route handlers: main.py, api/endpoints/stream.py *)

\* values of the ENVIRONMENT tag the process may run under
Environments == { "production", "development" }

NoReply == [status |-> 0]
\* HTTPException(status_code, detail)
HttpException(status, detail) == [status |-> status, detail |-> detail]
\* the handler returns value under its response_model
HttpOk(value) == [status |-> 200, body |-> value]
\* StreamingResponse(event_stream(), media_type="text/event-stream")
StreamingResponse == [status |-> 200, media_type |-> "text/event-stream"]

\* exception classes that except ValueError catches
ValueErrorTypes == { "ValueError", "JSONDecodeError", "ValidationError" }

\* the exception the decorated method raised last, whatever tenacity made of it
Cause(e) == IF e.type = "RetryError" THEN e.last ELSE e

\* str(e) of an exception raised with a message
StrOf(e) ==
    IF e.type = "RetryError" THEN << "RetryError" >>
    ELSE IF "text" \in DOMAIN e THEN << e.text >> \o e.detail
    ELSE e.detail

\* a handler that puts the message of the underlying error in every reply
HttpErrorVerbose(e) ==
    HttpException(IF e.type \in ValueErrorTypes THEN 400 ELSE 500, StrOf(Cause(e)))
\* the except clauses of the /score and /curriculum handlers
HttpError(e) ==
    IF e.type \in ValueErrorTypes
    THEN HttpException(400, StrOf(e))
    ELSE HttpException(500, << "Internal server error" >>)

----------------------------------------------------------------------------
(* GET /health: the gateway self-tests *)

\* texts a self-test call may return: "un" followed by "healthy" is the word
\* unhealthy, "q" a double quote
SelfTestTexts ==
    { << "healthy" >>, << "Healthy" >>, << "q", "healthy", "q" >>, << "un", "healthy" >>,
      << "x" >>, << >> }

SelfTestOutcomes ==
    { Raises(e) : e \in ExcTypes } \cup { Answers(t, << >>) : t \in SelfTestTexts }

\* str.lower
Lower(toks) == [i \in 1..Len(toks) |-> IF toks[i] = "Healthy" THEN "healthy" ELSE toks[i]]

\* "healthy" in text
HasHealthy(toks) == \E i \in 1..Len(toks) : toks[i] = "healthy"

\* GeminiGateway.health_check
GatewayHealthy(o) == IF o.raises THEN FALSE ELSE HasHealthy(Lower(o.toks))

\* CurriculumGateway.health_check over _generate_content, which raises on empty text
CurriculumHealthy(o) ==
    IF o.raises \/ IsEmptyText(o.toks) THEN FALSE ELSE HasHealthy(Lower(o.toks))

\* a handler satisfied with one healthy gateway
AnyHealthy(llm_healthy, curriculum_healthy) == llm_healthy \/ curriculum_healthy
\* llm_healthy and curriculum_healthy
AllHealthy(llm_healthy, curriculum_healthy) == llm_healthy /\ curriculum_healthy

HealthResponse == [status |-> "healthy", version |-> "1.0.0", llm_provider |-> "gemini"]

----------------------------------------------------------------------------
(* State machine *)

\* the consumer reads the response; once gone, pulled is the number of chunks
\* the provider stream had delivered when it went
Connected == [connected |-> TRUE, pulled |-> 0]

\* the locals of a handler that has not started
IdleLocals ==
    [ kind |-> "idle", pc |-> "idle", request |-> None, attempt |-> 0, prompt |-> NoPrompt,
      genCalls |-> 0, rawText |-> NoOutcome, response_json |-> ParseErr, auditCalls |-> 0,
      auditOutcome |-> NoOutcome, audited |-> ParseErr, verdict |-> None, draft |-> None,
      plan |-> None, error |-> NoError, trace |-> << >>, chunks |-> << >>,
      streamEnd |-> "open", yielded |-> << >>, frames |-> << >>, reply |-> NoReply,
      selfTests |-> None, consumer |-> Connected ]

Terminal ==
    pc \in { "idle", "done", "failed", "s_done", "s_error", "s_rejected", "s_cancelled", "h_done" }

\* the validator is constructed with a SafetyConfig, whose enabled flag is
\* either value; nothing changes it afterwards
Init ==
    /\ environment \in Environments
    /\ EMT_STRATEGIES = KnowledgeBase
    /\ promptCalls = << >>
    /\ enabled \in BOOLEAN
    /\ kind = "idle"
    /\ pc = "idle"
    /\ request = None
    /\ attempt = 0
    /\ prompt = NoPrompt
    /\ genCalls = 0
    /\ rawText = NoOutcome
    /\ response_json = ParseErr
    /\ auditCalls = 0
    /\ auditOutcome = NoOutcome
    /\ audited = ParseErr
    /\ verdict = None
    /\ draft = None
    /\ plan = None
    /\ error = NoError
    /\ trace = << >>
    /\ chunks = << >>
    /\ streamEnd = "open"
    /\ yielded = << >>
    /\ frames = << >>
    /\ reply = NoReply
    /\ selfTests = None
    /\ parked = IdleLocals
    /\ consumer = Connected

\* the locals of a request other than the self-test results
FreshRequest ==
    /\ attempt' = 1
    /\ prompt' = NoPrompt
    /\ genCalls' = 0
    /\ rawText' = NoOutcome
    /\ response_json' = ParseErr
    /\ auditCalls' = 0
    /\ auditOutcome' = NoOutcome
    /\ audited' = ParseErr
    /\ verdict' = None
    /\ draft' = None
    /\ plan' = None
    /\ error' = NoError
    /\ trace' = << >>
    /\ chunks' = << >>
    /\ streamEnd' = "open"
    /\ yielded' = << >>
    /\ frames' = << >>
    /\ consumer' = Connected
    /\ UNCHANGED << environment, EMT_STRATEGIES, promptCalls, enabled, parked >>

\* a new request starts with nothing left of the previous one
Fresh ==
    /\ selfTests' = None
    /\ FreshRequest

\* the handler has answered or its request has ended in an error: its locals
\* are dropped, and the process waits for the next request
Finish ==
    /\ Terminal
    /\ pc # "idle"
    /\ kind' = IdleLocals.kind
    /\ pc' = IdleLocals.pc
    /\ request' = IdleLocals.request
    /\ attempt' = IdleLocals.attempt
    /\ prompt' = IdleLocals.prompt
    /\ genCalls' = IdleLocals.genCalls
    /\ rawText' = IdleLocals.rawText
    /\ response_json' = IdleLocals.response_json
    /\ auditCalls' = IdleLocals.auditCalls
    /\ auditOutcome' = IdleLocals.auditOutcome
    /\ audited' = IdleLocals.audited
    /\ verdict' = IdleLocals.verdict
    /\ draft' = IdleLocals.draft
    /\ plan' = IdleLocals.plan
    /\ error' = IdleLocals.error
    /\ trace' = IdleLocals.trace
    /\ chunks' = IdleLocals.chunks
    /\ streamEnd' = IdleLocals.streamEnd
    /\ yielded' = IdleLocals.yielded
    /\ frames' = IdleLocals.frames
    /\ reply' = IdleLocals.reply
    /\ selfTests' = IdleLocals.selfTests
    /\ consumer' = IdleLocals.consumer
    /\ UNCHANGED << environment, EMT_STRATEGIES, promptCalls, enabled, parked >>

\* POST /score reaches llm_gateway.generate_intervention(request)
SubmitScore ==
    /\ pc = "idle"
    /\ \E req \in InterventionRequests : request' = req
    /\ kind' = "score"
    /\ pc' = "prompting"
    /\ reply' = NoReply
    /\ Fresh

\* POST /curriculum reaches curriculum_gateway.generate_curriculum_plan(request)
SubmitCurriculum ==
    /\ pc = "idle"
    /\ \E req \in CurriculumRequests : request' = req
    /\ kind' = "curriculum"
    /\ pc' = "prompting"
    /\ reply' = NoReply
    /\ Fresh

\* POST /stream with a body that is JSON: the handler returns the
\* StreamingResponse, whose status line goes out before event_stream runs
SubmitStream ==
    /\ pc = "idle"
    /\ \E p \in StreamPayloads : request' = p
    /\ kind' = "stream"
    /\ pc' = "s_build"
    /\ reply' = StreamingResponse
    /\ Fresh

\* POST /stream with a body that is not JSON: request.json() raises and the
\* handler answers 400 before event_stream exists
SubmitStreamInvalidJson ==
    /\ pc = "idle"
    /\ request' = InvalidJsonBody
    /\ kind' = "stream"
    /\ pc' = "s_rejected"
    /\ reply' = HttpException(400, << "Invalid JSON" >>)
    /\ Fresh

\* GET /health: both gateway self-tests run, then the handler answers
HealthCheck ==
    /\ pc = "idle"
    /\ \E a, b \in SelfTestOutcomes :
         /\ selfTests' = [ llm |-> a, curriculum |-> b,
                           llm_healthy |-> GatewayHealthy(a),
                           curriculum_healthy |-> CurriculumHealthy(b) ]
         /\ reply' = IF ~AllHealthy(GatewayHealthy(a), CurriculumHealthy(b))
                     THEN HttpException(503, << "Service unhealthy" >>)
                     ELSE HttpOk(HealthResponse)
    /\ request' = None
    /\ kind' = "health"
    /\ pc' = "h_done"
    /\ FreshRequest

\* the exception e leaves the body of the decorated method: tenacity either
\* runs the body again or, after the last attempt, raises RetryError
Fail(e) ==
    IF attempt < MaxAttempts
    THEN /\ attempt' = attempt + 1
         /\ pc' = "prompting"
         /\ error' = error
         /\ reply' = reply
    ELSE /\ attempt' = attempt
         /\ pc' = "failed"
         /\ error' = RetryError(Wrap(kind, e), attempt)
         /\ reply' = HttpError(RetryError(Wrap(kind, e), attempt))

\* the gateway method returns value and the route handler returns it
Return(value) ==
    /\ pc' = "done"
    /\ reply' = HttpOk(value)
    /\ UNCHANGED << attempt, error >>

\* the step went through: the body goes on at next
Goto(next) ==
    /\ pc' = next
    /\ UNCHANGED << attempt, error, reply >>

\* generate_intervention, lines 91-104: averages and prompt
ScorePrompt ==
    /\ pc = "prompting"
    /\ kind = "score"
    /\ trace' = Append(trace, "PROMPTING")
    /\ LET avg == [d \in Dims |-> OneShotAverage(request.scores[d])] IN
       IF \A d \in Dims : avg[d].ok
       THEN /\ prompt' = GetPrompt("intervention", "gemini", PromptData(request, avg))
            /\ Goto("generating")
       ELSE /\ prompt' = prompt
            /\ Fail(Exc("ZeroDivisionError", "average", << >>))
    /\ UNCHANGED << environment, EMT_STRATEGIES, promptCalls, parked, selfTests, consumer,
                    enabled, kind, request, genCalls, rawText, response_json, auditCalls,
                    auditOutcome, audited, verdict, draft, plan, chunks, streamEnd,
                    yielded, frames >>

\* generate_curriculum_plan, lines 48-56: prompt data and prompt
CurriculumPromptStep ==
    /\ pc = "prompting"
    /\ kind = "curriculum"
    /\ trace' = Append(trace, "PROMPTING")
    /\ prompt' = GetPrompt("curriculum", "gemini", CurriculumPromptData(request))
    /\ Goto("generating")
    /\ UNCHANGED << environment, EMT_STRATEGIES, promptCalls, parked, selfTests, consumer,
                    enabled, kind, request, genCalls, rawText, response_json, auditCalls,
                    auditOutcome, audited, verdict, draft, plan, chunks, streamEnd,
                    yielded, frames >>

\* self.model.generate_content(...) is issued
GenerateCall ==
    /\ pc = "generating"
    /\ genCalls' = genCalls + 1
    /\ trace' = Append(trace, "GENERATING")
    /\ Goto("gen_wait")
    /\ UNCHANGED << environment, EMT_STRATEGIES, promptCalls, parked, selfTests, consumer,
                    enabled, kind, request, prompt, rawText, response_json, auditCalls,
                    auditOutcome, audited, verdict, draft, plan, chunks, streamEnd,
                    yielded, frames >>

\* the generation call raises or returns; an empty text is an error
GenerateReturn ==
    /\ pc = "gen_wait"
    /\ \E o \in GenOutcomes(IF kind = "score" THEN InterventionObjects ELSE CurriculumObjects) :
         IF o.raises
         THEN /\ rawText' = rawText
              /\ Fail(Exc(o.exc, "provider", << >>))
         ELSE /\ rawText' = o
              /\ IF IsEmptyText(o.toks)
                 THEN Fail(Exc("ValueError", "empty", << >>))
                 ELSE Goto("extracting")
    /\ UNCHANGED << environment, EMT_STRATEGIES, promptCalls, parked, selfTests, consumer,
                    enabled, kind, request, prompt, genCalls, response_json, auditCalls,
                    auditOutcome, audited, verdict, draft, plan, trace, chunks, streamEnd,
                    yielded, frames >>

\* the exception class of a failed extraction
ExtractErrorType(toks) ==
    IF Find(toks, "{") >= 0 /\ RFind(toks, "}") + 1 > Find(toks, "{")
    THEN "JSONDecodeError"
    ELSE "ValueError"

\* json.loads with the brace fallback
ExtractStep ==
    /\ pc = "extracting"
    /\ trace' = Append(trace, "EXTRACTING")
    /\ LET r == Extract(rawText.toks, rawText.body) IN
       IF r.ok
       THEN /\ response_json' = r
            /\ Goto("auditing")
       ELSE /\ response_json' = response_json
            /\ Fail(Exc(ExtractErrorType(rawText.toks), "parse", << >>))
    /\ UNCHANGED << environment, EMT_STRATEGIES, promptCalls, parked, selfTests, consumer,
                    enabled, kind, request, prompt, genCalls, rawText, auditCalls,
                    auditOutcome, audited, verdict, draft, plan, chunks, streamEnd,
                    yielded, frames >>

\* a gateway that goes on whatever the verdict
AfterVerdictIgnoresUnsafe(v) ==
    /\ plan' = plan
    /\ Goto(IF kind = "curriculum" THEN "c_validating" ELSE "transforming")

\* gateway.py 146-148, curriculum_gateway.py 78-80: an unsafe verdict raises, a safe one lets the body go on
AfterVerdict(v) ==
    IF ~v.safe
    THEN /\ Fail(Exc("ValueError", "safety", v.violation.message))
         /\ plan' = plan
    ELSE /\ plan' = plan
         /\ Goto(IF kind = "curriculum" THEN "c_validating" ELSE "transforming")

\* validate_content with the audit disabled: no model call
AuditSkip ==
    /\ pc = "auditing"
    /\ ~enabled
    /\ trace' = Append(trace, "AUDITING")
    /\ audited' = response_json
    /\ verdict' = ValidateContent(enabled, NoOutcome)
    /\ AfterVerdict(ValidateContent(enabled, NoOutcome))
    /\ UNCHANGED << environment, EMT_STRATEGIES, promptCalls, parked, selfTests, consumer,
                    enabled, kind, request, prompt, genCalls, rawText, response_json,
                    auditCalls, auditOutcome, draft, chunks, streamEnd, yielded, frames >>

\* a validator that calls the audit model whatever config.enabled says
AuditCallAlways ==
    /\ pc = "auditing"
    /\ trace' = Append(trace, "AUDITING")
    /\ audited' = response_json
    /\ auditCalls' = auditCalls + 1
    /\ Goto("audit_wait")
    /\ UNCHANGED << environment, EMT_STRATEGIES, promptCalls, parked, selfTests, consumer,
                    enabled, kind, request, prompt, genCalls, rawText, response_json,
                    auditOutcome, verdict, draft, plan, chunks, streamEnd, yielded, frames >>
\* validate_content with the audit enabled: the audit model is called
AuditCall ==
    /\ pc = "auditing"
    /\ enabled
    /\ trace' = Append(trace, "AUDITING")
    /\ audited' = response_json
    /\ auditCalls' = auditCalls + 1
    /\ Goto("audit_wait")
    /\ UNCHANGED << environment, EMT_STRATEGIES, promptCalls, parked, selfTests, consumer,
                    enabled, kind, request, prompt, genCalls, rawText, response_json,
                    auditOutcome, verdict, draft, plan, chunks, streamEnd, yielded, frames >>

\* the audit call raises or returns; validate_content returns its verdict
AuditReturn ==
    /\ pc = "audit_wait"
    /\ \E o \in AuditOutcomes :
         /\ auditOutcome' = o
         /\ verdict' = ValidateContent(enabled, o)
         /\ AfterVerdict(ValidateContent(enabled, o))
    /\ UNCHANGED << environment, EMT_STRATEGIES, promptCalls, parked, selfTests, consumer,
                    enabled, kind, request, prompt, genCalls, rawText, response_json,
                    auditCalls, audited, draft, trace, chunks, streamEnd, yielded, frames >>

\* a gateway that builds the plan from an object obtained after the audit
TransformStepRegenerated ==
    /\ pc = "transforming"
    /\ trace' = Append(trace, "TRANSFORMING")
    /\ \E n \in 1..2 : draft' = Transform([BaseObject EXCEPT !.strategies = FullStrategies(n)])
    /\ Goto("validating")
    /\ UNCHANGED << environment, EMT_STRATEGIES, promptCalls, parked, selfTests, consumer,
                    enabled, kind, request, prompt, genCalls, rawText, response_json,
                    auditCalls, auditOutcome, audited, verdict, plan, chunks, streamEnd,
                    yielded, frames >>
\* lines 150-172: the canonical dict is built
TransformStep ==
    /\ pc = "transforming"
    /\ trace' = Append(trace, "TRANSFORMING")
    /\ IF TransformRaises(response_json)
       THEN /\ draft' = draft
            /\ Fail(Exc("KeyError", "shape", << >>))
       ELSE /\ draft' = Transform(response_json.val)
            /\ Goto("validating")
    /\ UNCHANGED << environment, EMT_STRATEGIES, promptCalls, parked, selfTests, consumer,
                    enabled, kind, request, prompt, genCalls, rawText, response_json,
                    auditCalls, auditOutcome, audited, verdict, plan, chunks, streamEnd,
                    yielded, frames >>

\* line 180: the InterventionPlan is constructed and returned
ValidateStep ==
    /\ pc = "validating"
    /\ trace' = Append(trace, "VALIDATING")
    /\ IF InterventionPlanOk(draft)
       THEN /\ plan' = draft
            /\ Return(draft)
       ELSE /\ plan' = plan
            /\ Fail(Exc("ValidationError", "schema", << >>))
    /\ UNCHANGED << environment, EMT_STRATEGIES, promptCalls, parked, selfTests, consumer,
                    enabled, kind, request, prompt, genCalls, rawText, response_json,
                    auditCalls, auditOutcome, audited, verdict, draft, chunks, streamEnd,
                    yielded, frames >>

\* main.py line 89: CurriculumResponse is built from the dict the gateway returned
CurriculumValidate ==
    /\ pc = "c_validating"
    /\ trace' = Append(trace, "VALIDATING")
    /\ IF CurriculumResponseOk(response_json)
       THEN /\ plan' = response_json
            /\ pc' = "done"
            /\ error' = error
            /\ reply' = HttpOk(response_json)
       ELSE LET e == Exc(IF response_json.isDict THEN "ValidationError" ELSE "TypeError",
                         "schema", << "validation error for CurriculumResponse" >>)
            IN /\ plan' = plan
               /\ pc' = "failed"
               /\ error' = e
               /\ reply' = HttpError(e)
    /\ UNCHANGED << environment, EMT_STRATEGIES, promptCalls, parked, selfTests, consumer,
                    enabled, kind, request, attempt, prompt, genCalls, rawText,
                    response_json, auditCalls, auditOutcome, audited, verdict, draft,
                    chunks, streamEnd, yielded, frames >>

\* an event_stream that opens the model stream whatever validation says
StreamBuildUnchecked ==
    /\ pc = "s_build"
    /\ LET p == FillScores(request) IN
       /\ request' = p
       /\ prompt' = IF InterventionRequestOk(p)
                    THEN GetPrompt("intervention", "gemini",
                                   PromptData(p, [d \in Dims |-> StreamAverage(p.scores[d])]))
                    ELSE prompt
       /\ pc' = "s_open"
       /\ error' = error
    /\ UNCHANGED << environment, EMT_STRATEGIES, promptCalls, parked, selfTests, consumer, reply,
                    enabled, kind, attempt, genCalls, rawText, response_json, auditCalls,
                    auditOutcome, audited, verdict, draft, plan, trace, chunks, streamEnd,
                    yielded, frames >>
\* event_stream, line 19: build_prompt_and_model(payload)
StreamBuild ==
    /\ pc = "s_build"
    /\ LET p == FillScores(request) IN
       /\ request' = p
       /\ IF InterventionRequestOk(p)
          THEN /\ prompt' = GetPrompt("intervention", "gemini",
                                PromptData(p, [d \in Dims |-> StreamAverage(p.scores[d])]))
               /\ pc' = "s_open"
               /\ error' = error
          ELSE /\ prompt' = prompt
               /\ pc' = "s_error"
               /\ error' = Exc("ValidationError", "request", << >>)
    /\ UNCHANGED << environment, EMT_STRATEGIES, promptCalls, parked, selfTests, consumer, reply,
                    enabled, kind, attempt, genCalls, rawText, response_json, auditCalls,
                    auditOutcome, audited, verdict, draft, plan, trace, chunks, streamEnd,
                    yielded, frames >>

\* StreamingModel.stream, lines 221-230: the provider stream is opened
StreamOpen ==
    /\ pc = "s_open"
    /\ genCalls' = genCalls + 1
    /\ pc' = "s_iter"
    /\ UNCHANGED << environment, EMT_STRATEGIES, promptCalls, parked, selfTests, consumer, reply,
                    enabled, kind, request, attempt, prompt, rawText, response_json,
                    auditCalls, auditOutcome, audited, verdict, draft, plan, error, trace,
                    chunks, streamEnd, yielded, frames >>

\* a stream that yields every chunk, empty text included
StreamChunkEvery ==
    /\ pc = "s_iter"
    /\ Len(chunks) < MaxChunks
    /\ \E c \in ChunkTexts :
         /\ chunks' = Append(chunks, c)
         /\ yielded' = Append(yielded, c)
         /\ frames' = Append(frames, TokenFrame(c))
    /\ UNCHANGED << environment, EMT_STRATEGIES, promptCalls, parked, selfTests, consumer, reply,
                    enabled, kind, pc, request, attempt, prompt, genCalls, rawText,
                    response_json, auditCalls, auditOutcome, audited, verdict, draft, plan,
                    error, trace, streamEnd >>
\* the provider delivers a chunk: stream yields it unless its text is empty,
\* and event_stream emits a token frame for every chunk yielded
StreamChunk ==
    /\ pc = "s_iter"
    /\ Len(chunks) < MaxChunks
    /\ \E c \in ChunkTexts :
         /\ chunks' = Append(chunks, c)
         /\ IF c # << >>
            THEN /\ yielded' = Append(yielded, c)
                 /\ frames' = Append(frames, TokenFrame(c))
            ELSE UNCHANGED << yielded, frames >>
    /\ UNCHANGED << environment, EMT_STRATEGIES, promptCalls, parked, selfTests, consumer, reply,
                    enabled, kind, pc, request, attempt, prompt, genCalls, rawText,
                    response_json, auditCalls, auditOutcome, audited, verdict, draft, plan,
                    error, trace, streamEnd >>

\* the provider stream ends: event_stream emits the complete frame
StreamComplete ==
    /\ pc = "s_iter"
    /\ streamEnd' = "ok"
    /\ frames' = Append(frames, CompleteFrame)
    /\ pc' = "s_done"
    /\ UNCHANGED << environment, EMT_STRATEGIES, promptCalls, parked, selfTests, consumer, reply,
                    enabled, kind, request, attempt, prompt, genCalls, rawText,
                    response_json, auditCalls, auditOutcome, audited, verdict, draft, plan,
                    error, trace, chunks, yielded >>

\* an event_stream that swallows the error and closes the sequence as complete
StreamRaiseSilent ==
    /\ pc = "s_iter"
    /\ streamEnd' = "raise"
    /\ frames' = Append(frames, CompleteFrame)
    /\ pc' = "s_done"
    /\ UNCHANGED << environment, EMT_STRATEGIES, promptCalls, parked, selfTests, consumer, reply,
                    enabled, kind, request, attempt, prompt, genCalls, rawText,
                    response_json, auditCalls, auditOutcome, audited, verdict, draft, plan,
                    error, trace, chunks, yielded >>
\* the provider stream raises: stream logs and re-raises, and the exception
\* leaves event_stream towards the server running the response
StreamRaise ==
    /\ pc = "s_iter"
    /\ streamEnd' = "raise"
    /\ \E e \in ExcTypes : error' = Exc(e, "provider", << >>)
    /\ pc' = "s_error"
    /\ UNCHANGED << environment, EMT_STRATEGIES, promptCalls, parked, selfTests, consumer, reply,
                    enabled, kind, request, attempt, prompt, genCalls, rawText,
                    response_json, auditCalls, auditOutcome, audited, verdict, draft, plan,
                    trace, chunks, yielded, frames >>

\* the consumer of a streamed response closes the connection; nothing in
\* stream_intervention, event_stream or StreamingModel.stream looks at it
ConsumerDisconnect ==
    /\ kind = "stream"
    /\ pc \in { "s_build", "s_open", "s_iter" }
    /\ consumer.connected
    /\ consumer' = [connected |-> FALSE, pulled |-> Len(chunks)]
    /\ UNCHANGED << environment, EMT_STRATEGIES, promptCalls, parked, selfTests, reply,
                    enabled, kind, pc, request, attempt, prompt, genCalls, rawText,
                    response_json, auditCalls, auditOutcome, audited, verdict, draft, plan,
                    error, trace, chunks, streamEnd, yielded, frames >>

\* the server running the response stops iterating event_stream once it has
\* seen the disconnect: the generator is closed where it is suspended, at the
\* yield of the frame of the last chunk
StreamCancel ==
    /\ kind = "stream"
    /\ pc = "s_iter"
    /\ ~consumer.connected
    /\ chunks # << >>
    /\ chunks[Len(chunks)] # << >>
    /\ streamEnd' = "cancelled"
    /\ pc' = "s_cancelled"
    /\ UNCHANGED << environment, EMT_STRATEGIES, promptCalls, parked, selfTests, consumer, reply,
                    enabled, kind, request, attempt, prompt, genCalls, rawText,
                    response_json, auditCalls, auditOutcome, audited, verdict, draft, plan,
                    error, trace, chunks, yielded, frames >>

Next ==
    \/ Finish
    \/ SubmitScore
    \/ SubmitCurriculum
    \/ SubmitStream
    \/ SubmitStreamInvalidJson
    \/ HealthCheck
    \/ ScorePrompt
    \/ CurriculumPromptStep
    \/ GenerateCall
    \/ GenerateReturn
    \/ ExtractStep
    \/ AuditSkip
    \/ AuditCall
    \/ AuditReturn
    \/ TransformStep
    \/ ValidateStep
    \/ CurriculumValidate
    \/ StreamBuild
    \/ StreamOpen
    \/ StreamChunk
    \/ StreamComplete
    \/ StreamRaise
    \/ ConsumerDisconnect
    \/ StreamCancel

Spec == Init /\ [][Next]_vars

----------------------------------------------------------------------------
(* get_prompt of InterventionPrompt and of CurriculumPrompt, called on one     *)
(* data object of any shape a caller may hand it                              *)

\* deficiency-area codes: the four known ones and one that is not known
AreaCodes == Dims \cup { "INVALID_EMT" }
Providers == { "gemini", "openai", "anthropic" }

\* get_prompt inputs: intervention data with any area code, and the
\* prompt_data of the curriculum requests
PromptInputs ==
    { [ family |-> "intervention", provider |-> pr,
        data |-> [ class_id |-> << "class", c >>, num_students |-> n, deficient_area |-> a,
                   emt1_avg |-> Ratio(165, 2), emt2_avg |-> Ratio(55, 2),
                   emt3_avg |-> Ratio(75, 1), emt4_avg |-> Zero ] ] :
          pr \in Providers, c \in 1..2, n \in { 20, 25 }, a \in AreaCodes }
    \cup { [ family |-> "curriculum", provider |-> pr, data |-> CurriculumPromptData(req) ] :
              pr \in Providers, req \in CurriculumRequests }

PromptInit ==
    /\ environment \in Environments
    /\ EMT_STRATEGIES = KnowledgeBase
    /\ promptCalls = << >>
    /\ enabled \in BOOLEAN
    /\ kind = "prompt"
    /\ pc = "p_build"
    /\ request \in PromptInputs
    /\ attempt = 0
    /\ prompt = NoPrompt
    /\ genCalls = 0
    /\ rawText = NoOutcome
    /\ response_json = ParseErr
    /\ auditCalls = 0
    /\ auditOutcome = NoOutcome
    /\ audited = ParseErr
    /\ verdict = None
    /\ draft = None
    /\ plan = None
    /\ error = NoError
    /\ trace = << >>
    /\ chunks = << >>
    /\ streamEnd = "open"
    /\ yielded = << >>
    /\ frames = << >>
    /\ reply = NoReply
    /\ selfTests = None
    /\ parked = IdleLocals
    /\ consumer = Connected

\* get_prompt(provider, data): the call returns the text and leaves the dict
\* as it wrote it, so the next call on the same object starts from there
BuildPrompt ==
    /\ kind = "prompt"
    /\ pc \in { "p_build", "p_done" }
    /\ Len(promptCalls) < MaxCalls
    /\ LET r == GetPrompt(request.family, request.provider, request.data) IN
       /\ prompt' = r
       /\ request' = [request EXCEPT !.data = r.data]
       /\ promptCalls' = Append(promptCalls,
                                [given |-> request.data, left |-> r.data, text |-> r.text])
    /\ pc' = "p_done"
    /\ UNCHANGED << environment, EMT_STRATEGIES, parked, selfTests, consumer, reply,
                    enabled, kind, attempt, genCalls, rawText, response_json,
                    auditCalls, auditOutcome, audited, verdict, draft, plan, error, trace,
                    chunks, streamEnd, yielded, frames >>

PromptNext == BuildPrompt

PromptSpec == PromptInit /\ [][PromptNext]_vars

----------------------------------------------------------------------------
(* Two requests in flight.  The handlers are coroutines of one event loop and *)
(* every object a handler writes is local to its invocation; the gateways,    *)
(* their configuration and the prompt classes are module-level objects that   *)
(* both invocations see.  The variables hold the locals of the invocation     *)
(* that is running, parked holds the locals of the other one.                 *)

\* the locals of the running invocation
Locals ==
    [ kind |-> kind, pc |-> pc, request |-> request, attempt |-> attempt, prompt |-> prompt,
      genCalls |-> genCalls, rawText |-> rawText, response_json |-> response_json,
      auditCalls |-> auditCalls, auditOutcome |-> auditOutcome, audited |-> audited,
      verdict |-> verdict, draft |-> draft, plan |-> plan, error |-> error, trace |-> trace,
      chunks |-> chunks, streamEnd |-> streamEnd, yielded |-> yielded, frames |-> frames,
      reply |-> reply, selfTests |-> selfTests, consumer |-> consumer ]

\* the locals other than response_json are exchanged with the parked ones
SwitchRest ==
    /\ parked' = Locals
    /\ kind' = parked.kind
    /\ pc' = parked.pc
    /\ request' = parked.request
    /\ attempt' = parked.attempt
    /\ prompt' = parked.prompt
    /\ genCalls' = parked.genCalls
    /\ rawText' = parked.rawText
    /\ auditCalls' = parked.auditCalls
    /\ auditOutcome' = parked.auditOutcome
    /\ audited' = parked.audited
    /\ verdict' = parked.verdict
    /\ draft' = parked.draft
    /\ plan' = parked.plan
    /\ error' = parked.error
    /\ trace' = parked.trace
    /\ chunks' = parked.chunks
    /\ streamEnd' = parked.streamEnd
    /\ yielded' = parked.yielded
    /\ frames' = parked.frames
    /\ reply' = parked.reply
    /\ selfTests' = parked.selfTests
    /\ consumer' = parked.consumer
    /\ UNCHANGED << environment, EMT_STRATEGIES, promptCalls, enabled >>

\* a gateway that keeps the parsed response on itself, where both invocations see it
SwitchSharedResponse ==
    /\ response_json' = response_json
    /\ SwitchRest
\* the other invocation runs: each invocation finds its own locals again
Switch ==
    /\ response_json' = parked.response_json
    /\ SwitchRest

\* requests, provider answers and self-test results tried with two requests in flight
ConcScope ==
    /\ request \in
          { None, InvalidJsonBody,
            [scores |-> SampleScores, metadata |-> SampleMetadata],
            [scores |-> [SampleScores EXCEPT !.EMT1 = << >>], metadata |-> SampleMetadata],
            [metadata |-> SampleMetadata],
            [grade_level |-> "2", skill_areas |-> << "anger_management" >>, score |-> 40] }
    /\ rawText \in
          { NoOutcome, Answers(<< "x" >>, << >>) }
          \cup { Answers(<< "{", "B", "}" >>, b) :
                    b \in { BaseObject, [BaseObject EXCEPT !.strategies = << >>] }
                          \cup CurriculumObjects }
    /\ auditOutcome \in
          { NoOutcome, Raises("ConnectionError"),
            Answers(<< "{", "B", "}" >>, [is_safe |-> JTrue]),
            Answers(<< "{", "B", "}" >>,
                    [is_safe |-> JFalse, reason |-> << "too", "scary" >>,
                     suggestion |-> << "soften" >>]) }
    /\ Len(chunks) <= ConcChunks
    /\ \/ error = NoError
       \/ Cause(error).origin # "provider"
       \/ Cause(error).type = "ConnectionError"
       \/ "cause" \in DOMAIN Cause(error) /\ Cause(error).cause = "ConnectionError"
    /\ selfTests # None
          => \A t \in { selfTests.llm, selfTests.curriculum } :
                t \in { Raises("ConnectionError"), Answers(<< "healthy" >>, << >>) }

ConcSubmitScore == SubmitScore /\ ConcScope'
ConcSubmitCurriculum == SubmitCurriculum /\ ConcScope'
ConcSubmitStream == SubmitStream /\ ConcScope'
ConcHealthCheck == HealthCheck /\ ConcScope'
ConcGenerateReturn == GenerateReturn /\ ConcScope'
ConcAuditReturn == AuditReturn /\ ConcScope'
ConcStreamChunk == StreamChunk /\ ConcScope'
ConcStreamRaise == StreamRaise /\ ConcScope'

ConcNext ==
    \/ Switch
    \/ Finish
    \/ ConcSubmitScore
    \/ ConcSubmitCurriculum
    \/ ConcSubmitStream
    \/ SubmitStreamInvalidJson
    \/ ConcHealthCheck
    \/ ScorePrompt
    \/ CurriculumPromptStep
    \/ GenerateCall
    \/ ConcGenerateReturn
    \/ ExtractStep
    \/ AuditSkip
    \/ AuditCall
    \/ ConcAuditReturn
    \/ TransformStep
    \/ ValidateStep
    \/ CurriculumValidate
    \/ StreamBuild
    \/ StreamOpen
    \/ ConcStreamChunk
    \/ StreamComplete
    \/ ConcStreamRaise

ConcSpec == Init /\ [][ConcNext]_vars

----------------------------------------------------------------------------
(* Properties *)

OneShot == kind \in { "score", "curriculum" }
InTrace(stage) == \E i \in 1..Len(trace) : trace[i] = stage
AuditReturned == auditOutcome # NoOutcome

\* the audit model call failed: it raised, answered nothing, or answered
\* with a text that json.loads(_clean_json(text)) does not turn into an object
AuditFailure(o) ==
    \/ o.raises
    \/ o.toks = << >>
    \/ ~JsonLoads(CleanJson(o.toks), o.body).ok
    \/ ~JsonLoads(CleanJson(o.toks), o.body).isDict

C2_ReleaseOnlyIfSafe ==
    OneShot =>
        /\ (pc \in { "transforming", "validating", "c_validating", "done" } \/ plan # None)
              => /\ verdict # None
                 /\ verdict.safe
                 /\ audited = response_json
                 /\ response_json = Extract(rawText.toks, rawText.body)
        /\ (verdict # None /\ ~verdict.safe) => (pc = "failed" /\ plan = None)
        /\ (plan # None /\ auditCalls = 0) => ~enabled
        /\ (AuditReturned /\ AuditFailure(auditOutcome)) => plan = None

C2_Witness ==
    /\ kind = "curriculum"
    /\ pc = "done"
    /\ plan # None
    /\ enabled
    /\ auditCalls = 1
    /\ verdict # None
    /\ verdict.safe

\* a step of the request being handled
RequestStep ==
    \/ ScorePrompt \/ CurriculumPromptStep \/ GenerateCall \/ GenerateReturn \/ ExtractStep
    \/ AuditSkip \/ AuditCall \/ AuditReturn \/ TransformStep \/ ValidateStep
    \/ CurriculumValidate

Stages == << "PROMPTING", "GENERATING", "EXTRACTING", "AUDITING", "TRANSFORMING", "VALIDATING" >>
StageIndex(stage) == CHOOSE i \in 1..Len(Stages) : Stages[i] = stage

\* C3: a one-shot request enters the stages prompt building, generation,
\* extraction, audit, transformation, schema validation in that order and each
\* at most once; a returned plan has passed every stage of its path; no stage
\* is entered again once a later one has started; the audit call is issued
\* only after the generation call of the request has returned.
C3_OneForwardPass ==
    OneShot =>
        /\ \A i, j \in 1..Len(trace) : i < j => StageIndex(trace[i]) < StageIndex(trace[j])
        /\ (kind = "score" => trace = SubSeq(Stages, 1, Len(trace)))
        /\ (kind = "score" /\ pc = "done") => trace = Stages
        /\ (kind = "curriculum" /\ pc = "done")
              => trace = << "PROMPTING", "GENERATING", "EXTRACTING", "AUDITING", "VALIDATING" >>
        /\ genCalls <= 1
        /\ auditCalls <= 1
        /\ auditCalls > 0 => /\ genCalls = 1
                             /\ pc # "gen_wait"
                             /\ rawText # NoOutcome
                             /\ ~rawText.raises
        /\ pc = "gen_wait" => auditCalls = 0
        /\ plan # None => pc = "done"
        /\ error # NoError => pc = "failed"
        /\ pc \notin { "done", "failed" } => ENABLED RequestStep

C3_Witness ==
    /\ kind = "score"
    /\ pc = "done"
    /\ trace = Stages
    /\ genCalls = 1
    /\ auditCalls = 1

\* exception classes the body of a gateway method lets out
BodyErrorTypes ==
    ExcTypes \cup { "ValueError", "JSONDecodeError", "ZeroDivisionError", "ValidationError",
                    "TypeError" }

\* C4: the generation call is attempted at most the configured number of
\* times, a failed attempt is followed by another only if it was not the final
\* one, and after the final attempt fails no further call is made and the
\* last error is what the caller receives.
C4_LastErrorPropagated ==
    OneShot =>
        /\ genCalls <= MaxAttempts
        /\ attempt <= MaxAttempts
        /\ (pc = "failed" /\ genCalls = MaxAttempts /\ ~InTrace("EXTRACTING"))
              => /\ error.type \in BodyErrorTypes
                 /\ error.origin \in { "provider", "empty" }

\* C5: when the generation call returns empty text the request fails, and
\* neither extraction nor an audit call nor a plan follows.
C5_EmptyTextFails ==
    (OneShot /\ rawText # NoOutcome /\ ~rawText.raises /\ rawText.toks = << >>)
        => /\ pc = "failed"
           /\ error.type = "RetryError"
           /\ error.last.origin = "empty"
           /\ ~InTrace("EXTRACTING")
           /\ ~InTrace("AUDITING")
           /\ auditCalls = 0
           /\ verdict = None
           /\ plan = None

C5_Witness ==
    /\ kind = "curriculum"
    /\ genCalls = 1
    /\ rawText # NoOutcome
    /\ ~rawText.raises
    /\ rawText.toks = << >>
    /\ pc = "failed"

FourWeeks == { WeekKey(1), WeekKey(2), WeekKey(3), WeekKey(4) }

\* C7: every plan returned by generate_intervention has a timeline whose keys
\* are exactly week1, week2, week3 and week4, whatever week entries the model
\* supplied.
C7_FourWeekKeys ==
    (kind = "score" /\ pc = "done") => DOMAIN plan.timeline = FourWeeks

SomeEmptyDimension == \E d \in Dims : request.scores[d] = << >>
AveragesOf(data) ==
    [ EMT1 |-> data.emt1_avg, EMT2 |-> data.emt2_avg, EMT3 |-> data.emt3_avg,
      EMT4 |-> data.emt4_avg ]

\* C8: for a valid request in which some dimension's score list is empty, the
\* pipeline computes that dimension's average as 0.0 and does not fail on it,
\* in the one-shot path as in the streaming path.
C8_EmptyAverageIsZero ==
    /\ (kind = "score" /\ InTrace("PROMPTING") /\ SomeEmptyDimension)
          => /\ prompt # NoPrompt
             /\ \A d \in Dims : request.scores[d] = << >> => AveragesOf(prompt.data)[d] = Zero
    /\ (kind = "stream" /\ pc # "s_build" /\ InterventionRequestOk(request)
        /\ SomeEmptyDimension)
          => /\ prompt # NoPrompt
             /\ \A d \in Dims : request.scores[d] = << >> => AveragesOf(prompt.data)[d] = Zero

\* the strategy carries the members the canonical strategy is built from,
\* with the types the provider schema declares
ValidModelStrategy(st) ==
    /\ { "title", "implementationPlan", "successMetrics" } \subseteq DOMAIN st
    /\ IsStr(st.title)
    /\ IsStrList(st.implementationPlan)
    /\ IsStrList(st.successMetrics)

\* C9: when the model response holds n valid strategies (1 <= n <= 5) and the
\* verdict is safe, the returned plan holds exactly n strategies, the i-th one
\* built from the i-th strategy of the model response; and once the schema
\* check has run on such a response, a plan is returned.
C9_StrategiesInOrder ==
    (kind = "score" /\ InTrace("VALIDATING")
     /\ Len(response_json.val.strategies) \in 1..5
     /\ \A i \in 1..Len(response_json.val.strategies) :
            ValidModelStrategy(response_json.val.strategies[i]))
        => /\ pc = "done"
           /\ verdict.safe
           /\ Len(plan.strategies) = Len(response_json.val.strategies)
           /\ Len(plan.strategies) \in 1..5
           /\ \A i \in 1..Len(plan.strategies) :
                LET src == response_json.val.strategies[i] IN
                /\ plan.strategies[i].activity = src.title
                /\ plan.strategies[i].implementation = src.implementationPlan
                /\ plan.strategies[i].expected_outcomes = src.successMetrics

C9_Witness ==
    /\ kind = "score"
    /\ pc = "done"
    /\ Len(response_json.val.strategies) = 3
    /\ Len(plan.strategies) = 3
    /\ plan.strategies[2].activity = << "title", 2 >>
    /\ plan.strategies[3].activity = << "title", 3 >>

\* C10: when the model stream has yielded c1..cn and completed normally, the
\* frames are exactly n token frames carrying c1..cn in that order, each
\* decoding to its chunk, followed by one complete frame; before completion
\* there is no complete frame.
C10_FramesMirrorChunks ==
    /\ (kind = "stream" /\ pc = "s_done")
          => /\ Len(frames) = Len(yielded) + 1
             /\ \A i \in 1..Len(yielded) :
                   /\ frames[i].key = "token"
                   /\ JsonLoadsStr(frames[i].value) = yielded[i]
             /\ frames[Len(frames)] = [key |-> "status", value |-> << "complete" >>]
    /\ (kind = "stream" /\ pc = "s_iter")
          => /\ Len(frames) = Len(yielded)
             /\ \A i \in 1..Len(frames) : frames[i].key = "token"

C10_Witness ==
    /\ kind = "stream"
    /\ pc = "s_done"
    /\ yielded = << << "Hello" >>, << "q", "n" >> >>
    /\ Len(frames) = 3

\* a step of the streaming handler
StreamStep == StreamBuild \/ StreamOpen \/ StreamChunk \/ StreamComplete \/ StreamRaise

\* C11: when the model stream raises after having yielded k chunks, the frames
\* emitted are exactly the k token frames of those chunks, no complete frame is
\* among them, the model stream was opened once and no further step of the
\* stream follows, and the exception is what ends the response.
C11_MidStreamFailure ==
    (kind = "stream" /\ streamEnd = "raise")
        => /\ pc = "s_error"
           /\ error # NoError
           /\ error.origin = "provider"
           /\ frames = [i \in 1..Len(yielded) |-> TokenFrame(yielded[i])]
           /\ \A i \in 1..Len(frames) : frames[i] # CompleteFrame
           /\ genCalls = 1
           /\ ~ENABLED StreamStep

C11_Witness ==
    /\ kind = "stream"
    /\ streamEnd = "raise"
    /\ pc = "s_error"
    /\ Len(yielded) = 2
    /\ Len(frames) = 2

\* the body is not JSON, or is JSON that InterventionRequest rejects
MalformedBody(p) == "invalid_json" \in DOMAIN p \/ ~InterventionRequestOk(FillScores(p))

\* C12: a POST /stream request whose body is malformed is answered with status
\* 400, and no model call is issued for it.
C12_MalformedStreamIs400 ==
    (kind = "stream" /\ pc # "s_build" /\ MalformedBody(request))
        => /\ reply.status = 400
           /\ genCalls = 0

Unsafe == verdict # None /\ ~verdict.safe

\* C13: when the safety audit returns an unsafe verdict for the generated
\* content, the caller of /score or /curriculum receives status 400.
C13_UnsafeIs400 ==
    (OneShot /\ Unsafe) => reply.status = 400

\* the reason text occurs in the detail
Mentions(detail, reason) ==
    /\ reason # << >>
    /\ \E i \in 1..Len(detail) :
          i + Len(reason) - 1 <= Len(detail) /\ SubSeq(detail, i, i + Len(reason) - 1) = reason

\* C14: the error a caller receives for a safety rejection is one fixed
\* generic detail in a production environment, whatever reason the audit model
\* gave; a detail that mentions the audit's reason is returned only when the
\* environment is development.
C14_GenericRejection ==
    (OneShot /\ Unsafe)
        => /\ pc = "failed"
           /\ "detail" \in DOMAIN reply
           /\ environment = "production" => reply.detail = << "Internal server error" >>
           /\ Mentions(reply.detail, verdict.violation.message) => environment = "development"

C14_Witness ==
    /\ environment = "production"
    /\ kind = "score"
    /\ Unsafe
    /\ verdict.violation.message = << "too", "scary" >>
    /\ reply.detail = << "Internal server error" >>

\* C15: on /score, a provider call that raises on the last attempt, a model
\* output that cannot be parsed or reshaped, and a schema violation each give
\* status 500 without a plan; status 200 is given only with a plan that passed
\* the schema.
C15_ScoreFailuresAre500 ==
    kind = "score" =>
        /\ (pc = "failed" /\ Cause(error).origin \in { "provider", "parse", "shape", "schema" })
              => /\ reply.status = 500
                 /\ "body" \notin DOMAIN reply
                 /\ plan = None
        /\ reply.status = 200
              => /\ pc = "done"
                 /\ reply.body = plan
                 /\ InterventionPlanOk(plan)

C15_Witness ==
    /\ kind = "score"
    /\ pc = "failed"
    /\ Cause(error).origin = "schema"
    /\ reply.status = 500

\* C16: on /curriculum, a model output that parses and passes the audit but
\* violates the CurriculumResponse schema gives status 500, as on /score.
C16_CurriculumSchemaIs500 ==
    (kind = "curriculum" /\ InTrace("VALIDATING") /\ pc = "failed") => reply.status = 500

\* C17: per one-shot request the audit model is called at most once: once
\* when the audit is enabled and extraction succeeded, never when the audit
\* is disabled or the request failed before the audit, and no audit step
\* follows a failed or unsafe audit.
C17_AuditAtMostOnce ==
    OneShot =>
        /\ auditCalls <= 1
        /\ ~enabled => auditCalls = 0
        /\ (enabled /\ response_json.ok /\ pc # "auditing") => auditCalls = 1
        /\ (pc = "failed" /\ ~response_json.ok) => auditCalls = 0
        /\ Unsafe => /\ pc = "failed"
                     /\ ~ENABLED (AuditCall \/ AuditReturn \/ AuditSkip)

C17_Witness ==
    /\ kind = "curriculum"
    /\ enabled
    /\ auditCalls = 1
    /\ Unsafe
    /\ pc = "failed"

\* C18: GET /health answers 200 exactly when the intervention self-test and the
\* curriculum self-test both report healthy, and 503 in every other case; a
\* self-test whose model call raises reports unhealthy, so the answer is 503.
C18_HealthStatus ==
    kind = "health" =>
        /\ reply.status \in { 200, 503 }
        /\ reply.status = 200 <=> (selfTests.llm_healthy /\ selfTests.curriculum_healthy)
        /\ selfTests.llm.raises => (~selfTests.llm_healthy /\ reply.status = 503)
        /\ selfTests.curriculum.raises => (~selfTests.curriculum_healthy /\ reply.status = 503)

C18_Witness ==
    /\ kind = "health"
    /\ selfTests.llm_healthy
    /\ selfTests.curriculum.raises
    /\ reply.status = 503

\* C20: for each of the four deficiency-area codes the intervention prompt
\* carries that area's named strategies; for a code that is not one of the
\* four it carries the fallback notice and the strategies of no area.
C20_AreaStrategiesOrFallback ==
    (kind = "prompt" /\ pc = "p_done" /\ request.family = "intervention") =>
        LET a == request.data.deficient_area
            t == prompt.text
        IN IF a \in Dims
           THEN a \in DOMAIN t.strategies /\ t.strategies[a] = ProvenStrategies[a]
           ELSE FallbackNotice \in t.notices /\ DOMAIN t.strategies = { }

InternalError == HttpException(500, << "Internal server error" >>)

\* the reply /score owes to a request, from the request and the answers the
\* provider gave to its generation call and its audit call
ExpectedScoreReply(req, gen, aud) ==
    LET r == Extract(gen.toks, gen.body) IN
    IF /\ \A d \in Dims : OneShotAverage(req.scores[d]).ok
       /\ ~IsEmptyText(gen.toks)
       /\ r.ok
       /\ ValidateContent(enabled, aud).safe
       /\ ~TransformRaises(r)
       /\ InterventionPlanOk(Transform(r.val))
    THEN HttpOk(Transform(r.val))
    ELSE InternalError

\* the same for /curriculum
ExpectedCurriculumReply(gen, aud) ==
    LET r == Extract(gen.toks, gen.body) IN
    IF ~IsEmptyText(gen.toks) /\ r.ok /\ ValidateContent(enabled, aud).safe
    THEN IF CurriculumResponseOk(r) THEN HttpOk(r)
         ELSE IF r.isDict
              THEN HttpException(400, << "validation error for CurriculumResponse" >>)
              ELSE InternalError
    ELSE InternalError

\* the frames /stream owes to the chunks the provider delivered on its stream
RECURSIVE ExpectedTokenFrames(_)
ExpectedTokenFrames(chs) ==
    IF chs = << >> THEN << >>
    ELSE IF Head(chs) = << >> THEN ExpectedTokenFrames(Tail(chs))
    ELSE << TokenFrame(Head(chs)) >> \o ExpectedTokenFrames(Tail(chs))

\* the invocation with locals l produced what its own input and its own
\* provider answers determine
OwnOutcome(l) ==
    /\ (l.kind = "score" /\ l.pc \in { "done", "failed" })
          => l.reply = ExpectedScoreReply(l.request, l.rawText, l.auditOutcome)
    /\ (l.kind = "curriculum" /\ l.pc \in { "done", "failed" })
          => l.reply = ExpectedCurriculumReply(l.rawText, l.auditOutcome)
    /\ (l.kind = "stream" /\ l.pc \in { "s_iter", "s_error" })
          => l.frames = ExpectedTokenFrames(l.chunks)
    /\ (l.kind = "stream" /\ l.pc = "s_done")
          => l.frames = ExpectedTokenFrames(l.chunks) \o << CompleteFrame >>
    /\ l.kind = "health"
          => (l.reply.status = 200
                <=> (GatewayHealthy(l.selfTests.llm) /\ CurriculumHealthy(l.selfTests.curriculum)))

C21_GetPromptIsPure ==
    kind = "prompt" =>
        /\ \A i \in 1..Len(promptCalls) : promptCalls[i].left = promptCalls[i].given
        /\ \A i, j \in 1..Len(promptCalls) : promptCalls[i].text = promptCalls[j].text

\* the request carries class metadata whose student count is zero or below
NoStudents(p) ==
    /\ "metadata" \in DOMAIN p
    /\ "num_students" \in DOMAIN p.metadata
    /\ p.metadata.num_students <= 0

\* C22: class metadata with a student count of zero or below is rejected at
\* request validation, so no request carrying it reaches prompt building or a
\* provider call.
C22_NoStudentsRejected ==
    (kind \in { "score", "stream" } /\ NoStudents(request))
        => /\ prompt = NoPrompt
           /\ ~InTrace("PROMPTING")
           /\ genCalls = 0

\* positions (1-based) of the first opening and of the last closing brace
FirstOpen(toks) == { i \in 1..Len(toks) : toks[i] = "{" /\ \A j \in 1..(i - 1) : toks[j] # "{" }
LastClose(toks) ==
    { i \in 1..Len(toks) : toks[i] = "}" /\ \A j \in (i + 1)..Len(toks) : toks[j] # "}" }

\* the whole text is JSON, or the text from its first opening brace to its last
\* closing brace is JSON
Extractable(o) ==
    \/ JsonLoads(o.toks, o.body).ok
    \/ \E i \in FirstOpen(o.toks), j \in LastClose(o.toks) :
          i < j /\ JsonLoads(SubSeq(o.toks, i, j), o.body).ok

\* C23: extraction of the raw text succeeds exactly when the whole text parses
\* as JSON or, failing that, the substring from the first opening brace to the
\* last closing brace parses; otherwise (a text without braces included) the
\* request fails with a parse error, and neither an audit call nor a plan
\* follows.
C23_ExtractionExact ==
    (OneShot /\ InTrace("EXTRACTING")) =>
        /\ response_json.ok <=> Extractable(rawText)
        /\ (response_json.ok /\ pc = "failed") => Cause(error).origin # "parse"
        /\ ~Extractable(rawText)
              => /\ pc = "failed"
                 /\ Cause(error).origin = "parse"
                 /\ Cause(error).type \in { "ValueError", "JSONDecodeError" }
                 /\ ~InTrace("AUDITING")
                 /\ auditCalls = 0
                 /\ verdict = None
                 /\ plan = None
                 /\ reply.status = 500

C23_Witness ==
    /\ kind = "score"
    /\ InTrace("EXTRACTING")
    /\ rawText.toks = << "x" >>
    /\ pc = "failed"
    /\ Cause(error).origin = "parse"
    /\ auditCalls = 0

\* the parsed object carries every member the transformer cannot do without:
\* the six members of the response and the week number of each timeline entry
CarriesRequired(parsed) ==
    /\ parsed.isDict
    /\ \A k \in { "classId", "numberOfStudents", "deficientArea", "strategies", "timeline",
                  "overallSuccessMetrics" } : k \in DOMAIN parsed.val
    /\ \A i \in 1..Len(parsed.val.timeline) : "week" \in DOMAIN parsed.val.timeline[i]

\* the member k of d, or the default when d has no such member
OrDefault(d, k, default) == IF k \in DOMAIN d THEN d[k] ELSE default

ContainsPercent(m) == "%" \in { m[i] : i \in 1..Len(m) }
LacksPercent(m) == ~ContainsPercent(m)

\* C25: the transformer puts every entry of the flat success-metrics list in
\* exactly one bucket, quantitative if the entry contains a percent sign and
\* qualitative otherwise, in the original order inside each bucket; no entry is
\* lost or duplicated.
C25_MetricsPartition ==
    (kind = "score" /\ draft # None) =>
        LET m == response_json.val.overallSuccessMetrics
            q == draft.success_metrics.quantitative
            l == draft.success_metrics.qualitative
        IN /\ q = SelectSeq(m, ContainsPercent)
           /\ l = SelectSeq(m, LacksPercent)
           /\ Len(q) + Len(l) = Len(m)
           /\ \A i \in 1..Len(q) : ContainsPercent(q[i])
           /\ \A i \in 1..Len(l) : ~ContainsPercent(l[i])
           /\ \A i \in 1..Len(m) :
                 Cardinality({ j \in 1..Len(m) : m[j] = m[i] })
                    = Cardinality({ j \in 1..Len(q) : q[j] = m[i] })
                      + Cardinality({ j \in 1..Len(l) : l[j] = m[i] })

C25_Witness ==
    /\ kind = "score"
    /\ pc = "done"
    /\ Len(response_json.val.overallSuccessMetrics) = 5
    /\ plan.success_metrics.quantitative
          = << << "15", "%", "gain" >>, << "90", "%" >>, << "15", "%", "gain" >> >>
    /\ plan.success_metrics.qualitative = << << "calmer", "class" >>, << "more", "talk" >> >>

\* C26: on the streaming path, once the consumer has disconnected the model
\* stream is released: no further chunk is pulled from it after the disconnect.
C26_ReleasedOnDisconnect ==
    (kind = "stream" /\ ~consumer.connected) => Len(chunks) = consumer.pulled

\* the audit answer parsed to an object whose is_safe member is the boolean true
SaysSafe(o) ==
    /\ ~o.raises
    /\ o.toks # << >>
    /\ LET result == JsonLoads(CleanJson(o.toks), o.body) IN
       /\ result.ok
       /\ result.isDict
       /\ "is_safe" \in DOMAIN result.val
       /\ result.val.is_safe = JTrue

\* C27: validate_content returns safe = true only when the audit response
\* parsed to a JSON object whose is_safe member is the boolean true; any other
\* value of is_safe (absent, null, a string such as "false", a number) yields
\* safe = false.
C27_SafeOnlyOnTrue ==
    (OneShot /\ enabled /\ AuditReturned)
        => /\ verdict # None
           /\ verdict.safe <=> SaysSafe(auditOutcome)

\* the body is JSON that InterventionRequest rejects
RejectedPayload(p) == "invalid_json" \notin DOMAIN p /\ ~InterventionRequestOk(FillScores(p))

\* C28: on the streaming path the payload is validated and the prompt built
\* before the model stream is opened: a JSON payload that fails validation
\* produces no provider call, no token frame and no complete frame.
C28_ValidatedBeforeOpen ==
    kind = "stream" =>
        /\ (pc # "s_build" /\ RejectedPayload(request))
              => /\ pc = "s_error"
                 /\ error.origin = "request"
                 /\ prompt = NoPrompt
                 /\ genCalls = 0
                 /\ chunks = << >>
                 /\ frames = << >>
        /\ genCalls > 0
              => /\ InterventionRequestOk(request)
                 /\ prompt # NoPrompt
                 /\ prompt.family = "intervention"

C28_Witness ==
    /\ kind = "stream"
    /\ request = [metadata |-> SampleMetadata]
    /\ pc = "s_error"
    /\ reply = StreamingResponse
    /\ genCalls = 0
    /\ frames = << >>

\* C29: the object passed to the safety audit is the parsed object the returned
\* result is built from: every model-derived value of a returned plan or
\* curriculum response comes from the audited object, and nothing from the
\* model is added to the result after the audit.
C29_ResultFromAudited ==
    OneShot =>
        /\ InTrace("AUDITING")
              => /\ audited = response_json
                 /\ audited = Extract(rawText.toks, rawText.body)
                 /\ genCalls = 1
                 /\ \A i, j \in 1..Len(trace) :
                       (trace[i] = "AUDITING" /\ trace[j] \in { "GENERATING", "EXTRACTING" })
                          => j < i
        /\ (kind = "score" /\ pc = "done")
              => /\ audited = response_json
                 /\ CarriesRequired(audited)
                 /\ plan = Transform(audited.val)
                 /\ reply.body = plan
        /\ (kind = "curriculum" /\ pc = "done")
              => /\ plan = audited
                 /\ reply.body = audited

C29_Witness ==
    /\ kind = "score"
    /\ pc = "done"
    /\ enabled
    /\ auditCalls = 1
    /\ rawText.toks = << "x", "{", "B", "}", "x" >>
    /\ audited = response_json
    /\ audited.val.strategies = FullStrategies(2)
    /\ plan.strategies = CanonicalStrategies(audited.val.strategies)

\* the chunk carries text
HasText(c) == c # << >>

\* the frames that carry a token
TokenFrames == SelectSeq(frames, LAMBDA f : f.key = "token")

\* C30: no token frame carries empty text: a provider chunk whose text is empty
\* is skipped and produces no frame, and the remaining chunks keep their
\* relative order.
C30_NoEmptyTokenFrame ==
    kind = "stream" =>
        /\ \A i \in 1..Len(frames) : frames[i].key = "token" => frames[i].value # << >>
        /\ yielded = SelectSeq(chunks, HasText)
        /\ Len(TokenFrames) = Len(yielded)
        /\ \A i \in 1..Len(TokenFrames) : JsonLoadsStr(TokenFrames[i].value) = yielded[i]

C30_Witness ==
    /\ kind = "stream"
    /\ pc = "s_done"
    /\ chunks = << << "Hello" >>, << >>, << "q", "n" >> >>
    /\ Len(frames) = 3
    /\ frames[2] = TokenFrame(<< "q", "n" >>)

====
